---------------------------- MODULE Spec2Model ----------------------------
(***************************************************************************)
(* Longitudinal landing-control core of Aircraft_Control:                  *)
(*   landing_controller.py  LandingController (phase machine, PID laws)    *)
(*   simulation.py          FlightSimulator (dynamics, RK4 loop, metrics)  *)
(*   stability_analysis.py  StabilityAnalyzer (modes, handling qualities)  *)
(*   aircraft_model.py      AircraftModel (coefficient set)                *)
(*                                                                         *)
(* Numbers.  Python floats are modelled as fixed-point integers with U     *)
(* units per 1.0 (metres -> mm, radians -> mrad, seconds -> ms, ...).      *)
(* Products and quotients are rounded to the nearest grid value.  The      *)
(* model covers                                                            *)
(* finite values inside the flight envelope; IEEE-754 overflow to inf/NaN  *)
(* (magnitudes near 1e308) is outside the number domain.                   *)
(* The simulation clock is the one place where the claims depend on the    *)
(* rounding of a running float sum (t += dt): the clock is modelled as a   *)
(* binary floating-point number with round-to-nearest-even, its mantissa   *)
(* narrowed from 53 to MantBits bits so that the drift binary64 shows      *)
(* after hundreds of additions shows after a handful.                      *)
(***************************************************************************)
EXTENDS Integers, Sequences, FiniteSets, TLC

VARIABLES
    aircraft,         \* AircraftModel instance: the coefficient set
    ctrl,             \* LandingController instance: gains, accumulators, phase
    op,               \* the operation that took the last step
    cmd,              \* what it returned, if it was compute_control
    call,             \* the arguments it was given, if it was compute_control
    lqr,              \* what it returned, if it was design_lqr_controller
    ncalls,           \* direct calls made by the caller so far (bounded)
    pc,               \* position of the caller: "idle", "loop" (inside
                      \* simulate_landing's while loop), "returned"
    args,             \* simulate_landing arguments: initial_state, duration,
                      \* dt, and of the controller its gains and whether it
                      \* came in with accumulators or phase left by earlier use
    state,            \* simulate_landing local: the 6-vector [u,w,q,theta,x,h]
    t,                \* simulate_landing local: the clock
    x_touchdown,      \* simulate_landing local: runway threshold
    time_history,     \* simulate_landing local
    state_history,    \* simulate_landing local
    control_history,  \* simulate_landing local
    nruns,            \* simulate_landing runs started so far (bounded)
    prev,             \* arguments and result of the previous completed run
    perf,             \* what the last step returned, if it was
                      \* evaluate_landing_performance
    evalArg,          \* the histories it was given
    spectrum,         \* eigenvalues of the state matrix, sorted by real part
    modes,            \* result of analyze_longitudinal_stability
    hq,               \* result of evaluate_handling_qualities
    trimArg,          \* the arguments get_trim_condition was given
    trim,             \* what get_trim_condition returned or raised
    matrices          \* result of get_longitudinal_matrices

retVars  == <<cmd, call, lqr, perf, evalArg>>
simVars  == <<pc, args, state, t, x_touchdown, time_history, state_history,
              control_history, nruns, prev>>
hqVars   == <<spectrum, modes, hq>>
trimVars == <<trimArg, trim, matrices>>
vars     == <<aircraft, ctrl, ncalls, op, retVars, simVars, hqVars, trimVars>>

---------------------------------------------------------------------------
(* Bounds of the model *)

MaxCalls == 2         \* direct controller calls the caller makes
MaxRuns  == 2         \* simulate_landing runs
MantBits == 4         \* mantissa width of the simulation clock

---------------------------------------------------------------------------
(* Fixed-point arithmetic *)

U == 10 * 10 * 10

Abs(a) == IF a < 0 THEN -a ELSE a
Min(a, b) == IF a <= b THEN a ELSE b
Max(a, b) == IF a >= b THEN a ELSE b

\* n / d rounded to the nearest integer, d > 0.
\* a * b on the grid.  The larger factor is split so that the intermediate
\* product stays small.
RDiv(n, d) == (n + d \div 2) \div d
MulSplit(a, b) == (a \div U) * b + RDiv((a % U) * b, U)
Mul(a, b) == IF Abs(a) >= Abs(b) THEN MulSplit(a, b) ELSE MulSplit(b, a)

\* a / b on the grid, b # 0.
DivPos(a, b) == (a \div b) * U + RDiv((a % b) * U, b)
Div(a, b) == IF b < 0 THEN DivPos(-a, -b) ELSE DivPos(a, b)

\* np.clip(x, lo, hi)
Clip(x, lo, hi) == Min(Max(x, lo), hi)

\* floor(sqrt(n)) by Newton's iteration
RECURSIVE SqrtIter(_, _)
SqrtIter(n, x) ==
    LET y == (x + n \div x) \div 2
    IN  IF y >= x THEN x ELSE SqrtIter(n, y)
ISqrt(n) == IF n <= 0 THEN 0 ELSE SqrtIter(n, n)

\* np.sqrt(a**2 + b**2) for grid values a, b (computed on a 10x coarser
\* grid so that the squares stay in range)
Hypot(a, b) ==
    LET ac == Abs(a) \div 10
        bc == Abs(b) \div 10
    IN  IF b = 0 THEN Abs(a)
        ELSE IF a = 0 THEN Abs(b)
        ELSE 10 * ISqrt(ac * ac + bc * bc)

\* np.deg2rad(d), d in whole degrees, rounded to the nearest mrad
Deg2Rad(d) == RDiv(d * 17453, U)

\* np.rad2deg(x), x in mrad, in milli-degrees
Rad2Deg(x) == RDiv(x * 57296, U)

\* np.sin, np.cos, np.tan by their Taylor polynomials (arguments stay small:
\* pitch is clipped to +-0.5 rad, the glide slope is 3 degrees)
Sin(x) ==
    LET x2 == Mul(x, x)
        x3 == Mul(x2, x)
        x5 == Mul(x3, x2)
    IN  x - RDiv(x3, 6) + RDiv(x5, 120)
Cos(x) ==
    LET x2 == Mul(x, x)
        x4 == Mul(x2, x2)
    IN  U - RDiv(x2, 2) + RDiv(x4, 24)
Tan(x) ==
    LET x2 == Mul(x, x)
        x3 == Mul(x2, x)
        x5 == Mul(x3, x2)
    IN  x + RDiv(x3, 3) + RDiv(2 * x5, 15)

\* np.arctan2(y, x): rational approximation r / (1 + 0.28 r^2) of atan on
\* |r| <= 1, reflected to the other octants
AtanUnit(r) == Div(r, U + Mul(280, Mul(r, r)))
Atan2(y, x) ==
    LET pi == 3142
        halfPi == 1571
    IN  IF x = 0 /\ y = 0 THEN 0
        ELSE IF Abs(y) <= Abs(x)
             THEN LET a == AtanUnit(Div(y, x))
                  IN  IF x > 0 THEN a
                      ELSE IF y >= 0 THEN a + pi ELSE a - pi
             ELSE LET a == AtanUnit(Div(x, y))
                  IN  IF y > 0 THEN halfPi - a ELSE -halfPi - a

---------------------------------------------------------------------------
(* aircraft_model.py: the coefficient set *)

AircraftModel ==
    [ mass |-> 1100000, wing_area |-> 16200, wing_span |-> 11000,
      chord |-> 1500, Ixx |-> 1285000, Iyy |-> 1824000, Izz |-> 2666000,
      Ixz |-> 0,
      CL0 |-> 280, CLalpha |-> 4580, CLq |-> 3900, CLde |-> 430,
      CD0 |-> 31, CDalpha |-> 130, CDde |-> 60,
      Cm0 |-> 40, Cmalpha |-> -610, Cmq |-> -12400, Cmde |-> -1280,
      max_thrust |-> 1200000, g |-> 9810, rho |-> 1225 ]

\* a / b for magnitudes beyond the quotient range of the grid (forces in N,
\* m * V): both are first rounded to whole units
DivLarge(a, b) == Div(RDiv(a, U), RDiv(b, U))

NoTrimArg == [given |-> FALSE]
NoTrim == [outcome |-> "none"]
NoMatrices == [outcome |-> "none"]

\* Lines 79-103, given the dynamic pressure q of line 78.  All operands are
\* Python floats, so the division of line 79 raises ZeroDivisionError when
\* q * wing_area is 0.0 and nothing else in the method can fail.
TrimState(ac, velocity, altitude, q) ==
    IF Mul(q, ac.wing_area) = 0
    THEN [outcome |-> "ZeroDivisionError"]
    ELSE LET CL_trim == DivLarge(Mul(ac.mass, ac.g), Mul(q, ac.wing_area))
             alpha_trim == Div(CL_trim - ac.CL0, ac.CLalpha)
             CD_trim == ac.CD0 + Mul(ac.CDalpha, alpha_trim)
             thrust_trim == Mul(Mul(CD_trim, q), ac.wing_area)
             de_trim == Div(-(ac.Cm0 + Mul(ac.Cmalpha, alpha_trim)), ac.Cmde)
         IN  [outcome |-> "trim",
              velocity |-> velocity,
              alpha |-> alpha_trim,
              theta |-> alpha_trim,
              q |-> 0,
              altitude |-> altitude,
              CL |-> CL_trim,
              CD |-> CD_trim,
              elevator |-> de_trim,
              thrust |-> thrust_trim]

\* A trim solver that reports its default airspeed instead of the requested
\* one
TrimReportsDefaultVelocity(ac, velocity, altitude) ==
    TrimState(ac, 30 * U, altitude,
              Mul(Mul(500, ac.rho), Mul(velocity, velocity)))

\* AircraftModel.get_trim_condition(velocity, altitude)
get_trim_condition(ac, velocity, altitude) ==
    TrimState(ac, velocity, altitude,
              Mul(Mul(500, ac.rho), Mul(velocity, velocity)))

\* Lines 122-155: the stability and control derivatives and the matrices,
\* given V and alpha of lines 114-115, q_bar of line 117 and m * V
StateSpace(ac, V, alpha, q_bar, mV) ==
    LET S == ac.wing_area
        c == ac.chord
        Xu == -DivLarge(Mul(Mul(2 * ac.CD0, q_bar), S), mV)
        Xw == DivLarge(Mul(Mul(ac.CLalpha - 2 * ac.CL0, q_bar), S), mV)
        Zu == -DivLarge(Mul(Mul(2 * ac.CL0, q_bar), S), mV)
        Zw == DivLarge(Mul(Mul(-(ac.CLalpha + ac.CD0), q_bar), S), mV)
        Zq == -V
        Mu == 0
        Mw == DivLarge(Mul(Mul(Mul(ac.Cmalpha, q_bar), S), c), ac.Iyy)
        Mq == DivLarge(Mul(Mul(Mul(ac.Cmq, q_bar), S), Mul(c, c)),
                       Mul(2 * ac.Iyy, V))
        Xde == 0
        Xdt == Div(ac.max_thrust, ac.mass)
        Zde == DivLarge(Mul(Mul(ac.CLde, q_bar), S), ac.mass)
        Zdt == 0
        Mde == DivLarge(Mul(Mul(Mul(ac.Cmde, q_bar), S), c), ac.Iyy)
        Mdt == 0
    IN  [A |-> << <<Xu, Xw, 0, Mul(-ac.g, Cos(alpha))>>,
                  <<Zu, Zw, V + Zq, Mul(-ac.g, Sin(alpha))>>,
                  <<Mu, Mw, Mq, 0>>,
                  <<0, 0, U, 0>> >>,
         B |-> << <<Xde, Xdt>>,
                  <<Zde, Zdt>>,
                  <<Mde, Mdt>>,
                  <<0, 0>> >>]

\* What a call of get_longitudinal_matrices leaves behind: the pair it
\* returns, and the two objects it was handed by reference
AfterLinearize(ss, ac, trim_condition) ==
    [outcome |-> "matrices", A |-> ss.A, B |-> ss.B,
     self |-> ac, trim_condition |-> trim_condition]

\* A linearization that levels the trim dictionary it was given
LinearizeLevellingTrim(ac, trim_condition) ==
    AfterLinearize(StateSpace(ac, trim_condition.velocity,
                              trim_condition.alpha,
                              Mul(Mul(500, ac.rho),
                                  Mul(trim_condition.velocity,
                                      trim_condition.velocity)),
                              Mul(ac.mass, trim_condition.velocity)),
                   ac, [trim_condition EXCEPT !.theta = 0])

\* AircraftModel.get_longitudinal_matrices(trim_condition)
get_longitudinal_matrices(ac, trim_condition) ==
    AfterLinearize(StateSpace(ac, trim_condition.velocity,
                              trim_condition.alpha,
                              Mul(Mul(500, ac.rho),
                                  Mul(trim_condition.velocity,
                                      trim_condition.velocity)),
                              Mul(ac.mass, trim_condition.velocity)),
                   ac, trim_condition)

---------------------------------------------------------------------------
(* landing_controller.py *)

Phases == {"approach", "glide_slope", "flare", "touchdown"}

\* LandingController.__init__
LandingController ==
    [ glide_slope_angle |-> Deg2Rad(-3),
      flare_altitude |-> 20000,
      touchdown_velocity |-> 25000,
      Kp_theta |-> 3000, Ki_theta |-> 300, Kd_theta |-> 1500,
      Kp_alt |-> 80, Ki_alt |-> 10, Kd_alt |-> 500,
      Kp_vel |-> 400, Ki_vel |-> 50,
      int_theta |-> 0, int_alt |-> 0, int_vel |-> 0,
      prev_error_theta |-> 0, prev_error_alt |-> 0,
      phase |-> "approach" ]

\* LandingController.reset (a variant that forgets the pitch integrator and
\* the phase comes first)
ResetKeepsPitchIntegral(c) ==
    [c EXCEPT !.int_alt = 0, !.int_vel = 0,
              !.prev_error_theta = 0, !.prev_error_alt = 0]
reset(c) ==
    [c EXCEPT !.int_theta = 0, !.int_alt = 0, !.int_vel = 0,
              !.prev_error_theta = 0, !.prev_error_alt = 0,
              !.phase = "approach"]

\* LandingController.compute_glide_slope_reference
compute_glide_slope_reference(c, horizontal_distance) ==
    LET ref_altitude == -Mul(horizontal_distance, Tan(c.glide_slope_angle))
    IN  Max(0, ref_altitude)

\* LandingController.update_phase (first a variant that keeps a phase once
\* the aircraft has descended into it)
UpdatePhaseSticky(c, altitude, distance_to_touchdown) ==
    IF altitude <= 500 \/ c.phase = "touchdown" THEN "touchdown"
    ELSE IF altitude < c.flare_altitude \/ c.phase = "flare" THEN "flare"
    ELSE IF altitude < 200000 /\ distance_to_touchdown < 4000000
         THEN "glide_slope"
    ELSE "approach"
update_phase(c, altitude, distance_to_touchdown) ==
    IF altitude <= 500 THEN "touchdown"
    ELSE IF altitude < c.flare_altitude THEN "flare"
    ELSE IF altitude < 200000 /\ distance_to_touchdown < 4000000
         THEN "glide_slope"
    ELSE "approach"

\* The pitch-attitude PID shared by approach, glide_slope and flare
\* (lines 143-151, 178-186, 204-212): returns the raw elevator and the
\* controller with int_theta and prev_error_theta updated.
PitchPID(c, theta_cmd, theta, dt, Kp, Ki, Kd) ==
    LET error_theta == theta_cmd - theta
        int_theta == c.int_theta + Mul(error_theta, dt)
        d_error_theta == Div(error_theta - c.prev_error_theta, dt)
    IN  [ elevator |-> Mul(error_theta, Kp) + Mul(int_theta, Ki)
                       + Mul(d_error_theta, Kd),
          c |-> [c EXCEPT !.int_theta = int_theta,
                          !.prev_error_theta = error_theta] ]

\* The velocity PI feeding the throttle (lines 154-156, 189-191, 215-217)
VelocityPI(c, ref_velocity, velocity, dt, scale) ==
    LET error_vel == ref_velocity - velocity
        int_vel == c.int_vel + Mul(error_vel, dt)
    IN  [ throttle |-> Mul(scale, Mul(error_vel, c.Kp_vel)
                                  + Mul(int_vel, c.Ki_vel)),
          c |-> [c EXCEPT !.int_vel = int_vel] ]

\* phase == 'approach'
ApproachLaw(c, st, distance, dt) ==
    LET pid == PitchPID(c, 0, st.theta, dt, c.Kp_theta, c.Ki_theta, c.Kd_theta)
        vel == VelocityPI(pid.c, 33000, st.velocity, dt, U)
    IN  [elevator |-> pid.elevator, throttle |-> vel.throttle, c |-> vel.c]

\* phase == 'glide_slope' (first a variant without the anti-windup clip of
\* line 166)
GlideSlopeLawNoAntiWindup(c, st, distance, dt) ==
    LET ref_altitude == compute_glide_slope_reference(c, distance)
        error_alt == ref_altitude - st.altitude
        int_alt == c.int_alt + Mul(error_alt, dt)
        d_error_alt == Div(error_alt - c.prev_error_alt, dt)
        theta_cmd == Clip(Mul(error_alt, 120) + Mul(int_alt, 20)
                          + Mul(d_error_alt, 400), -120, 80)
        c1 == [c EXCEPT !.int_alt = int_alt, !.prev_error_alt = error_alt]
        pid == PitchPID(c1, theta_cmd, st.theta, dt,
                        c.Kp_theta, c.Ki_theta, c.Kd_theta)
        vel == VelocityPI(pid.c, 30000, st.velocity, dt, 700)
    IN  [elevator |-> pid.elevator, throttle |-> vel.throttle, c |-> vel.c]
GlideSlopeLaw(c, st, distance, dt) ==
    LET ref_altitude == compute_glide_slope_reference(c, distance)
        error_alt == ref_altitude - st.altitude
        int_alt == Clip(c.int_alt + Mul(error_alt, dt), -50000, 50000)
        d_error_alt == Div(error_alt - c.prev_error_alt, dt)
        theta_cmd == Clip(Mul(error_alt, 120) + Mul(int_alt, 20)
                          + Mul(d_error_alt, 400), -120, 80)
        c1 == [c EXCEPT !.int_alt = int_alt, !.prev_error_alt = error_alt]
        pid == PitchPID(c1, theta_cmd, st.theta, dt,
                        c.Kp_theta, c.Ki_theta, c.Kd_theta)
        vel == VelocityPI(pid.c, 30000, st.velocity, dt, 700)
    IN  [elevator |-> pid.elevator, throttle |-> vel.throttle, c |-> vel.c]

\* phase == 'flare' (first a variant that clears the altitude loop on
\* leaving the glide slope)
FlareLawClearingAltitudeLoop(c, st, distance, dt) ==
    LET flare_progress == U - Div(st.altitude, c.flare_altitude)
        theta_cmd == Clip(Deg2Rad(-2) + Mul(Deg2Rad(7), flare_progress),
                          Deg2Rad(-5), Deg2Rad(8))
        pid == PitchPID([c EXCEPT !.int_alt = 0, !.prev_error_alt = 0],
                        theta_cmd, st.theta, dt, 4000, 800, 2000)
        vel == VelocityPI(pid.c, 27000, st.velocity, dt, 500)
    IN  [elevator |-> pid.elevator, throttle |-> vel.throttle, c |-> vel.c]
FlareLaw(c, st, distance, dt) ==
    LET flare_progress == U - Div(st.altitude, c.flare_altitude)
        theta_cmd == Clip(Deg2Rad(-2) + Mul(Deg2Rad(7), flare_progress),
                          Deg2Rad(-5), Deg2Rad(8))
        pid == PitchPID(c, theta_cmd, st.theta, dt, 4000, 800, 2000)
        vel == VelocityPI(pid.c, 27000, st.velocity, dt, 500)
    IN  [elevator |-> pid.elevator, throttle |-> vel.throttle, c |-> vel.c]

\* phase == 'touchdown' (first a variant that keeps the flare's integral
\* term)
TouchdownLawWithIntegral(c, st, distance, dt) ==
    LET theta_cmd == Deg2Rad(2)
        error_theta == theta_cmd - st.theta
    IN  [elevator |-> Mul(2000, error_theta) + Mul(800, c.int_theta),
         throttle |-> 0, c |-> c]
TouchdownLaw(c, st, distance, dt) ==
    LET theta_cmd == Deg2Rad(2)
        error_theta == theta_cmd - st.theta
    IN  [elevator |-> Mul(2000, error_theta), throttle |-> 0, c |-> c]

\* "Limit control surfaces" (lines 227-229); first a variant that limits
\* only from below
LimitControlsOneSided(elevator, throttle) ==
    [elevator |-> Max(elevator, -400), throttle |-> Max(throttle, 0)]
LimitControls(elevator, throttle) ==
    [elevator |-> Clip(elevator, -400, 400), throttle |-> Clip(throttle, 0, U)]

\* LandingController.compute_control: the controller after the call and the
\* returned control dictionary
PhaseLaw(c0, st, distance_to_touchdown, dt) ==
    CASE c0.phase = "approach" ->
            ApproachLaw(c0, st, distance_to_touchdown, dt)
      [] c0.phase = "glide_slope" ->
            GlideSlopeLaw(c0, st, distance_to_touchdown, dt)
      [] c0.phase = "flare" ->
            FlareLaw(c0, st, distance_to_touchdown, dt)
      [] c0.phase = "touchdown" ->
            TouchdownLaw(c0, st, distance_to_touchdown, dt)
ControlDictionary(lim, phase) ==
    [elevator |-> lim.elevator, throttle |-> lim.throttle, phase |-> phase]
LimitAndReturn(law) ==
    [ c |-> law.c,
      control |-> ControlDictionary(LimitControls(law.elevator, law.throttle),
                                    law.c.phase) ]
compute_control(c, st, distance_to_touchdown, dt) ==
    LimitAndReturn(
        PhaseLaw([c EXCEPT !.phase =
                               update_phase(c, st.altitude,
                                            distance_to_touchdown)],
                 st, distance_to_touchdown, dt))

NoControl == [elevator |-> 0, throttle |-> 0, phase |-> "none"]
NoCall == [state |-> [velocity |-> 0, altitude |-> 0, theta |-> 0, q |-> 0],
           distance |-> 0, dt |-> 0]

---------------------------------------------------------------------------
(* The caller's direct use of one controller instance *)

\* Arguments the caller passes to compute_control: altitude and distance on
\* and around every phase threshold, each with a nose-down/slow/short-step,
\* a nose-up/fast/long-step and a nearly trimmed flight state (the last
\* keeps the commands inside the surface limits).
PhasePoints ==
    { <<300, 500000>>, <<500, 500000>>, <<501, 3500000>>,
      <<10000, 500000>>, <<19999, 5000000>>,
      <<20000, 3500000>>, <<20000, 4000000>>,
      <<100000, 3500000>>, <<100000, 3999999>>, <<100000, -200000>>,
      <<199999, 3500000>>, <<200000, 3500000>>, <<300000, 5000000>> }
Flavours ==
    { [velocity |-> 20000, theta |-> -500, q |-> 0, dt |-> 10],
      [velocity |-> 40000, theta |-> 300, q |-> 100, dt |-> 1000],
      [velocity |-> 32000, theta |-> 20, q |-> 0, dt |-> 1000] }
ControlInputs ==
    { [state |-> [velocity |-> f.velocity, altitude |-> p[1],
                  theta |-> f.theta, q |-> f.q],
       distance |-> p[2], dt |-> f.dt] : p \in PhasePoints, f \in Flavours }

\* Values the caller assigns to controller.Kp_theta (example_usage.py)
GainValues == {2000, 4000}


NoPerf == [touchdown_speed_ms |-> 0, touchdown_vertical_rate_ms |-> 0,
           touchdown_pitch_deg |-> 0, mean_glide_slope_error_m |-> 0,
           max_glide_slope_error_m |-> 0, landing_success |-> FALSE]
NoHistories == [times |-> << >>, states |-> << >>, controls |-> << >>]
\* The configuration fields of a controller (everything reset leaves alone)
Gains(c) ==
    [ glide_slope_angle |-> c.glide_slope_angle,
      flare_altitude |-> c.flare_altitude,
      touchdown_velocity |-> c.touchdown_velocity,
      Kp_theta |-> c.Kp_theta, Ki_theta |-> c.Ki_theta,
      Kd_theta |-> c.Kd_theta,
      Kp_alt |-> c.Kp_alt, Ki_alt |-> c.Ki_alt, Kd_alt |-> c.Kd_alt,
      Kp_vel |-> c.Kp_vel, Ki_vel |-> c.Ki_vel ]

\* No design_lqr_controller call has returned
NoLQR == [solve |-> "none", result |-> "none"]

NoArgs == [gains |-> Gains(LandingController), used |-> FALSE,
           initial_state |-> [u |-> 0, w |-> 0, q |-> 0, theta |-> 0,
                              x |-> 0, h |-> 0, has_x_touchdown |-> FALSE,
                              x_touchdown |-> 0],
           duration |-> 0, dt |-> 0]

Init ==
    /\ aircraft = AircraftModel
    /\ ctrl = LandingController
    /\ cmd = NoControl
    /\ call = NoCall
    /\ lqr = NoLQR
    /\ op = "init"
    /\ ncalls = 0
    /\ pc = "idle"
    /\ args = NoArgs
    /\ state = <<0, 0, 0, 0, 0, 0>>
    /\ t = 0
    /\ x_touchdown = 0
    /\ time_history = << >>
    /\ state_history = << >>
    /\ control_history = << >>
    /\ nruns = 0
    /\ prev = [valid |-> FALSE, args |-> NoArgs, result |-> NoHistories]
    /\ perf = NoPerf
    /\ evalArg = NoHistories
    /\ spectrum = << >>
    /\ modes = << >>
    /\ hq = << >>
    /\ trimArg = NoTrimArg
    /\ trim = NoTrim
    /\ matrices = NoMatrices

\* What a step hands back to the caller: the values of the operation that
\* took the step, and nothing of the operations before it
\* The analyses are made before the controller is used and before the
\* flights, as main.py makes them
Preflight == pc = "idle" /\ nruns = 0 /\ ncalls = 0

NoAnalysis ==
    /\ spectrum' = << >>
    /\ modes' = << >>
    /\ hq' = << >>
NoTrimming ==
    /\ trimArg' = NoTrimArg
    /\ trim' = NoTrim
    /\ matrices' = NoMatrices
Returns(c, k, l, p, e) ==
    /\ cmd' = c
    /\ call' = k
    /\ lqr' = l
    /\ perf' = p
    /\ evalArg' = e
    /\ NoAnalysis
    /\ NoTrimming

\* controller.compute_control(state, distance_to_touchdown, dt), called by
\* the caller outside a simulation run
Deliver(r, in) ==
    /\ ctrl' = r.c
    /\ Returns(r.control, in, NoLQR, NoPerf, NoHistories)
ComputeControlFrom(inputs) ==
    /\ pc \in {"idle", "returned"}
    /\ ncalls < MaxCalls
    /\ \E in \in inputs :
          Deliver(compute_control(ctrl, in.state, in.distance, in.dt), in)
    /\ ncalls' = ncalls + 1
    /\ op' = "compute_control"
    /\ UNCHANGED <<aircraft, simVars>>

ComputeControl == ComputeControlFrom(ControlInputs)

\* controller.reset()
Reset ==
    /\ pc \in {"idle", "returned"}
    /\ ncalls < MaxCalls
    /\ ctrl' = reset(ctrl)
    /\ Returns(NoControl, NoCall, NoLQR, NoPerf, NoHistories)
    /\ ncalls' = ncalls + 1
    /\ op' = "reset"
    /\ UNCHANGED <<aircraft, simVars>>

\* controller.Kp_theta = Kp
SetGain ==
    /\ pc \in {"idle", "returned"}
    /\ ncalls < MaxCalls
    /\ \E k \in GainValues : ctrl' = [ctrl EXCEPT !.Kp_theta = k]
    /\ Returns(NoControl, NoCall, NoLQR, NoPerf, NoHistories)
    /\ ncalls' = ncalls + 1
    /\ op' = "set_gain"
    /\ UNCHANGED <<aircraft, simVars>>

\* A design that clears the controller when the solve fails
DesignResettingOnFailure(c, solve) ==
    [c |-> IF solve = "returns" THEN c ELSE reset(c),
     result |-> IF solve = "returns" THEN "K" ELSE "None"]

\* controller.design_lqr_controller(trim), lines 247-263, given what
\* ct.lqr does on line 259: it returns the gain matrix, or it raises and the
\* except clause of line 261 turns that into None.  No line assigns to self.
design_lqr_controller(c, solve) ==
    [c |-> c,
     result |-> IF solve = "returns" THEN "K" ELSE "None"]

Designed(r, solve) ==
    /\ ctrl' = r.c
    /\ Returns(NoControl, NoCall, [solve |-> solve, result |-> r.result],
               NoPerf, NoHistories)
DesignLQR ==
    /\ pc \in {"idle", "returned"}
    /\ ncalls < MaxCalls
    /\ \E solve \in {"returns", "raises"} :
          Designed(design_lqr_controller(ctrl, solve), solve)
    /\ ncalls' = ncalls + 1
    /\ op' = "design_lqr_controller"
    /\ UNCHANGED <<aircraft, simVars>>

NextCtrl == ComputeControl \/ Reset \/ SetGain \/ DesignLQR

SpecCtrl == Init /\ [][NextCtrl]_vars

---------------------------------------------------------------------------
(* Claims about the controller *)

\* C1: every command compute_control returns has its elevator in
\* [-0.4, 0.4] rad and its throttle in [0, 1], whatever the phase, the
\* inputs and the accumulated integrators (inputs range over the finite
\* flight envelope of ControlInputs).
C1_CommandWithinLimits ==
    cmd.phase # "none" =>
        /\ -400 <= cmd.elevator /\ cmd.elevator <= 400
        /\ 0 <= cmd.throttle /\ cmd.throttle <= U

\* C1 witness: after several calls, with wound-up integrators, a command at
\* the upper elevator limit and full throttle has been returned.
C1_Witness ==
    /\ op = "compute_control"
    /\ ncalls >= 2
    /\ ctrl.int_theta > 0
    /\ ctrl.int_vel > 0
    /\ ctrl.prev_error_theta > 0
    /\ cmd.elevator = 400
    /\ cmd.throttle = U

\* The phase the claim prescribes for an altitude and a distance
C2_Prescribed(altitude, distance, flare_altitude) ==
    IF altitude <= 500 THEN "touchdown"
    ELSE IF 500 < altitude /\ altitude < flare_altitude THEN "flare"
    ELSE IF flare_altitude <= altitude /\ altitude < 200000
            /\ distance < 4000000 THEN "glide_slope"
    ELSE "approach"

\* C2: after a compute_control call the controller's phase, which is also
\* the phase in the returned command, is determined by that call's altitude
\* and distance alone: touchdown at or below 0.5 m, flare below
\* flare_altitude, glide_slope below 200 m within 4000 m, else approach;
\* (300, 5000) is approach, (100, 3500) glide_slope, 10 flare, 0.3 touchdown.
C2_PhaseIsFunctionOfAltitudeAndDistance ==
    op = "compute_control" =>
        LET altitude == call.state.altitude
            distance == call.distance
        IN  /\ cmd.phase = ctrl.phase
            /\ ctrl.phase =
                 C2_Prescribed(altitude, distance, ctrl.flare_altitude)
            /\ (altitude = 300000 /\ distance = 5000000)
                   => ctrl.phase = "approach"
            /\ (altitude = 100000 /\ distance = 3500000)
                   => ctrl.phase = "glide_slope"
            /\ altitude = 10000 => ctrl.phase = "flare"
            /\ altitude = 300 => ctrl.phase = "touchdown"

\* C2 witness: a glide_slope call at (100, 3500) made when earlier calls
\* have left integrators behind.
C2_Witness ==
    /\ op = "compute_control"
    /\ ncalls >= 2
    /\ call.state.altitude = 100000 /\ call.distance = 3500000
    /\ cmd.phase = "glide_slope"
    /\ ctrl.int_vel # 0 /\ ctrl.int_theta # 0

---------------------------------------------------------------------------
(* simulation.py: FlightSimulator *)

\* The simulation clock: a binary floating-point number with MantBits bits
\* of mantissa, in ticks of 50 ms.  ClockRound rounds an exact sum to the
\* nearest representable value, ties to the even mantissa.
RECURSIVE Pow2(_)
Pow2(k) == IF k = 0 THEN 1 ELSE 2 * Pow2(k - 1)
RECURSIVE ClockExp(_, _)
ClockExp(n, e) == IF n < Pow2(MantBits + e) THEN e ELSE ClockExp(n, e + 1)
ClockRound(n) ==
    LET e == ClockExp(n, 0)
        p == Pow2(e)
        m == n \div p
        r == n % p
    IN  IF 2 * r > p \/ (2 * r = p /\ m % 2 = 1) THEN (m + 1) * p ELSE m * p
\* t += dt, rounded to the clock's mantissa
ClockAdd(a, b) == ClockRound(a + b)
\* dt as a grid value in seconds
Seconds(ticks) == ticks * 50

\* FlightSimulator.longitudinal_dynamics(state, t, control)
longitudinal_dynamics(ac, s, control) ==
    LET u == s[1]
        w == s[2]
        q == s[3]
        theta == s[4]
        V == Hypot(u, w)
        alpha == Atan2(w, u)
        q_bar == Mul(Mul(ac.rho, Mul(V, V)), 500)
        elevator == control.elevator
        throttle == control.throttle
        CL == Clip(ac.CL0 + Mul(ac.CLalpha, alpha) + Mul(ac.CLde, elevator),
                   -1500, 1800)
        CD == Max(ac.CD0 + Mul(ac.CDalpha, Mul(alpha, alpha))
                  + Mul(ac.CDde, Abs(elevator)), 20)
        L == Mul(Mul(q_bar, ac.wing_area), CL)
        D == Mul(Mul(q_bar, ac.wing_area), CD)
        T == Mul(throttle, ac.max_thrust)
        weight == Mul(ac.mass, ac.g)
        X == Mul(T, Cos(alpha)) - D - Mul(weight, Sin(theta))
        Z == -Mul(T, Sin(alpha)) - L + Mul(weight, Cos(theta))
        Cm == ac.Cm0 + Mul(ac.Cmalpha, alpha)
              + Div(Mul(Mul(ac.Cmq, q), ac.chord), 2 * V)
              + Mul(ac.Cmde, elevator)
        M == Mul(Mul(Mul(q_bar, ac.wing_area), ac.chord), Cm)
        u_dot == Div(X, ac.mass) + Mul(w, q)
        w_dot == Div(Z, ac.mass) - Mul(u, q)
        q_dot == Div(M, ac.Iyy)
        theta_dot == q
        x_dot == Mul(u, Cos(theta)) + Mul(w, Sin(theta))
        h_dot == Mul(u, Sin(theta)) - Mul(w, Cos(theta))
    IN  <<u_dot, w_dot, q_dot, theta_dot, x_dot, h_dot>>

\* state + c * k, componentwise
Axpy(s, c, k) == [i \in 1..6 |-> s[i] + Mul(c, k[i])]

\* One classical Runge-Kutta step with the control held fixed
\* (simulate_landing, lines 136-141)
\* (each stage is handed the slopes of the stages before it)
RK4Sum(s, dt, k1, k2, k3, k4) ==
    [i \in 1..6 |->
        s[i] + RDiv(Mul(dt, k1[i] + 2 * k2[i] + 2 * k3[i] + k4[i]), 6)]
RK4Stage4(ac, s, control, dt, k1, k2, k3) ==
    RK4Sum(s, dt, k1, k2, k3,
           longitudinal_dynamics(ac, Axpy(s, dt, k3), control))
RK4Stage3(ac, s, control, dt, k1, k2) ==
    RK4Stage4(ac, s, control, dt, k1, k2,
              longitudinal_dynamics(ac, Axpy(s, RDiv(dt, 2), k2), control))
RK4Stage2(ac, s, control, dt, k1) ==
    RK4Stage3(ac, s, control, dt, k1,
              longitudinal_dynamics(ac, Axpy(s, RDiv(dt, 2), k1), control))
RK4Step(ac, s, control, dt) ==
    RK4Stage2(ac, s, control, dt, longitudinal_dynamics(ac, s, control))

\* "Apply reasonable bounds" (lines 144-146); first a variant that leaves
\* the pitch angle alone
ApplyBoundsNoPitch(s) ==
    [s EXCEPT ![1] = Clip(s[1], 18000, 45000), ![3] = Clip(s[3], -500, 500)]
ApplyBounds(s) ==
    [s EXCEPT ![1] = Clip(s[1], 18000, 45000),
              ![3] = Clip(s[3], -500, 500),
              ![4] = Clip(s[4], -500, 500)]

\* initial_state.get('x_touchdown', 3000.0)
GetXTouchdown(initial_state) ==
    IF initial_state.has_x_touchdown THEN initial_state.x_touchdown
    ELSE 3000000

\* FlightSimulator.evaluate_landing_performance
RECURSIVE SumSeq(_)
SumSeq(q) == IF q = << >> THEN 0 ELSE Head(q) + SumSeq(Tail(q))
RECURSIVE MaxSeq(_)
MaxSeq(q) == IF Len(q) = 1 THEN q[1] ELSE Max(Head(q), MaxSeq(Tail(q)))

\* the loop of lines 183-195 over state_history[i..]; first a variant that
\* pairs controls[i] with the state the step led to
RECURSIVE GlideSlopeErrorsPostStep(_, _, _)
GlideSlopeErrorsPostStep(state_hist, control_hist, i) ==
    IF i > Len(state_hist) THEN << >>
    ELSE LET rest == GlideSlopeErrorsPostStep(state_hist, control_hist, i + 1)
             j == Min(i + 1, Len(state_hist))
             distance == 3000000 - state_hist[j][5]
             ref_h == Mul(distance, Tan(Deg2Rad(3)))
         IN  IF /\ control_hist # << >>
                /\ i <= Len(control_hist)
                /\ control_hist[i].phase = "glide_slope"
                /\ distance > 0
             THEN <<Abs(state_hist[j][6] - ref_h)>> \o rest
             ELSE rest
RECURSIVE GlideSlopeErrors(_, _, _)
GlideSlopeErrors(state_hist, control_hist, i) ==
    IF i > Len(state_hist) THEN << >>
    ELSE LET rest == GlideSlopeErrors(state_hist, control_hist, i + 1)
             x == state_hist[i][5]
             h == state_hist[i][6]
             distance == 3000000 - x
             ref_h == Mul(distance, Tan(Deg2Rad(3)))
         IN  IF /\ control_hist # << >>
                /\ i <= Len(control_hist)
                /\ control_hist[i].phase = "glide_slope"
                /\ distance > 0
             THEN <<Abs(h - ref_h)>> \o rest
             ELSE rest

\* the success criterion of line 207; first a variant with inclusive bounds
LandingSuccessInclusive(touchdown_rate, touchdown_speed) ==
    /\ Abs(touchdown_rate) <= 3000
    /\ touchdown_speed >= 18000
    /\ touchdown_speed <= 35000
LandingSuccess(touchdown_rate, touchdown_speed) ==
    /\ Abs(touchdown_rate) < 3000
    /\ touchdown_speed > 18000
    /\ touchdown_speed < 35000

evaluate_landing_performance(hist) ==
    LET final_state == hist.states[Len(hist.states)]
        u_td == final_state[1]
        w_td == final_state[2]
        V_td == Hypot(u_td, w_td)
        theta_td == final_state[4]
        touchdown_rate == -w_td
        errors == GlideSlopeErrors(hist.states, hist.controls, 1)
    IN  [ touchdown_speed_ms |-> V_td,
          touchdown_vertical_rate_ms |-> touchdown_rate,
          touchdown_pitch_deg |-> Rad2Deg(theta_td),
          mean_glide_slope_error_m |->
              IF errors # << >> THEN RDiv(SumSeq(errors), Len(errors)) ELSE 0,
          max_glide_slope_error_m |->
              IF errors # << >> THEN MaxSeq(errors) ELSE 0,
          landing_success |-> LandingSuccess(touchdown_rate, V_td) ]

---------------------------------------------------------------------------
(* Simulation runs *)

InitialState(u, w, q, theta, x, h, has, xtd) ==
    [u |-> u, w |-> w, q |-> q, theta |-> theta, x |-> x, h |-> h,
     has_x_touchdown |-> has, x_touchdown |-> xtd]

\* Initial conditions the caller passes: the repository's own scenarios
\* (main.py, test_system.py), low approaches that reach the ground within a
\* few steps, a start beyond the default threshold, and a start outside the
\* integrator's guard bands.
RunArguments ==
    { \* main.py: level at 300 m, 3 km out; 1.5 s in steps of 0.25 s
      [initial_state |-> InitialState(35000, 0, 0, 0, 0, 300000, TRUE, 3000000),
       duration |-> 30, dt |-> 5],
      \* test_system.py: on the glide slope; 0.3 s in steps of 0.05 s
      [initial_state |->
           InitialState(30000, -1000, 0, 0, 2000000, 100000, TRUE, 3000000),
       duration |-> 6, dt |-> 1],
      \* the same with no x_touchdown entry in initial_state
      [initial_state |->
           InitialState(30000, -1000, 0, 0, 2000000, 100000, FALSE, 0),
       duration |-> 30, dt |-> 5],
      \* a runway at 5 km, the aircraft already past x = 3000 m
      [initial_state |->
           InitialState(30000, 1500, 0, -52, 3500000, 100000, TRUE, 5000000),
       duration |-> 6, dt |-> 1],
      \* 0.3 m above the runway, sinking
      [initial_state |->
           InitialState(27000, 3000, 0, 35, 2990000, 300, TRUE, 3000000),
       duration |-> 6, dt |-> 1],
      \* 2 m above the runway, sinking, in the flare
      [initial_state |->
           InitialState(28000, 2500, 0, 0, 2950000, 2000, TRUE, 3000000),
       duration |-> 30, dt |-> 5],
      \* the same with no x_touchdown entry in initial_state
      [initial_state |->
           InitialState(28000, 2500, 0, 0, 2950000, 2000, FALSE, 0),
       duration |-> 30, dt |-> 5],
      \* a start outside the integrator's guard bands
      [initial_state |->
           InitialState(50000, 2000, 800, 600, 1000000, 21000, TRUE, 3000000),
       duration |-> 6, dt |-> 1],
      \* fast and sinking, one step of 0.05 s
      [initial_state |->
           InitialState(50000, 3000, 0, 0, 2000000, 100000, TRUE, 3000000),
       duration |-> 1, dt |-> 1],
      \* already on the ground
      [initial_state |->
           InitialState(30000, 0, 0, 0, 3000000, 0, TRUE, 3000000),
       duration |-> 6, dt |-> 1],
      \* no time to fly
      [initial_state |->
           InitialState(30000, -1000, 0, 0, 2000000, 100000, TRUE, 3000000),
       duration |-> 0, dt |-> 1] }

\* Arguments of the direct compute_control calls made between runs
BetweenRunInputs ==
    { in \in ControlInputs :
        /\ in.state.altitude \in {10000, 100000}
        /\ in.distance \in {500000, 3500000}
        /\ in.dt = 1000 /\ in.state.velocity = 40000 }

\* A trajectory the caller builds by hand and gives to
\* evaluate_landing_performance: one recorded step ending in `final`
Trajectory(first, final, phase) ==
    [ times |-> <<0, 1>>,
      states |-> <<first, final>>,
      controls |-> <<[elevator |-> 0, throttle |-> 0, phase |-> phase]>> ]
CraftedHistories ==
    { Trajectory(<<25000, 0, 0, 0, 2999000, 100>>,
                 <<25000, 0, 0, 0, 3000000, 0>>, "touchdown"),
      Trajectory(<<25000, 0, 0, 0, 2000000, 60000>>,
                 <<18000, 0, 0, 0, 3000000, 0>>, "glide_slope"),
      Trajectory(<<25000, 0, 0, 0, 3200000, 60000>>,
                 <<35000, 0, 0, 0, 3000000, 0>>, "glide_slope"),
      Trajectory(<<25000, 0, 0, 0, 2999000, 100>>,
                 <<25000, 3000, 0, 0, 3000000, 0>>, "flare"),
      Trajectory(<<25000, 0, 0, 0, 2999000, 100>>,
                 <<25000, -2999, 0, 0, 3000000, 0>>, "flare"),
      Trajectory(<<25000, 0, 0, 0, 2999000, 100>>,
                 <<34000, 9000, 0, 0, 3000000, 0>>, "flare") }

Result == [times |-> time_history, states |-> state_history,
           controls |-> control_history]

\* simulate_landing, lines 93-113: set up the locals and reset the controller
SimulateBegin ==
    /\ pc \in {"idle", "returned"}
    /\ nruns < MaxRuns
    /\ \E a \in RunArguments :
          LET init == a.initial_state
          IN  /\ args' = [gains |-> Gains(ctrl),
                          used |-> (ctrl # [LandingController EXCEPT
                                               !.Kp_theta = ctrl.Kp_theta]),
                          initial_state |-> init,
                          duration |-> a.duration, dt |-> a.dt]
              /\ state' = <<init.u, init.w, init.q, init.theta, init.x,
                            init.h>>
              /\ x_touchdown' = GetXTouchdown(init)
    /\ time_history' = <<0>>
    /\ state_history' = <<state'>>
    /\ control_history' = << >>
    /\ ctrl' = reset(ctrl)
    /\ t' = 0
    /\ prev' = IF pc = "returned"
               THEN [valid |-> TRUE, args |-> args, result |-> Result]
               ELSE prev
    /\ pc' = "loop"
    /\ nruns' = nruns + 1
    /\ Returns(NoControl, NoCall, NoLQR, NoPerf, NoHistories)
    /\ op' = "simulate_begin"
    /\ UNCHANGED <<aircraft, ncalls>>

\* Lines 116-127 and 130: what the loop hands to compute_control
CurrentCall ==
    [state |-> [velocity |-> Hypot(state[1], state[2]),
                altitude |-> state[6],
                theta |-> state[4], q |-> state[3]],
     distance |-> x_touchdown - state[5],
     dt |-> Seconds(args.dt)]

\* A variant of lines 148-158 that stores with the command the phase of the
\* state the step led to
StoreWithPhaseOfNewState(control, s1, t1) ==
    /\ t' = t1
    /\ time_history' = Append(time_history, t1)
    /\ state_history' = Append(state_history, s1)
    /\ control_history' =
          Append(control_history,
                 [control EXCEPT !.phase =
                      update_phase(ctrl, s1[6], x_touchdown - s1[5])])
    /\ IF s1[6] <= 0
       THEN state' = [s1 EXCEPT ![6] = 0] /\ pc' = "break"
       ELSE state' = s1 /\ pc' = "loop"

\* Lines 148-158: advance the clock, store the histories, check for ground
\* contact; control is the command of line 133, s1 the state of line 146
StoreAndCheck(control, s1, t1) ==
    /\ t' = t1
    /\ time_history' = Append(time_history, t1)
    /\ state_history' = Append(state_history, s1)
    /\ control_history' = Append(control_history, control)
    /\ IF s1[6] <= 0
       THEN state' = [s1 EXCEPT ![6] = 0] /\ pc' = "break"
       ELSE state' = s1 /\ pc' = "loop"

\* A step that asks the controller again before integrating
IntegrateAfterSecondQuery(r) ==
    /\ ctrl' = compute_control(r.c, CurrentCall.state, CurrentCall.distance,
                               CurrentCall.dt).c
    /\ Returns(r.control, CurrentCall, NoLQR, NoPerf, NoHistories)
    /\ StoreAndCheck(r.control,
                     ApplyBounds(RK4Step(aircraft, state, r.control,
                                         Seconds(args.dt))),
                     ClockAdd(t, args.dt))

\* Lines 136-158, given what compute_control returned on line 133
IntegrateAndStore(r) ==
    /\ ctrl' = r.c
    /\ Returns(r.control, CurrentCall, NoLQR, NoPerf, NoHistories)
    /\ StoreAndCheck(r.control,
                     ApplyBounds(RK4Step(aircraft, state, r.control,
                                         Seconds(args.dt))),
                     ClockAdd(t, args.dt))

\* An iteration of a loop that goes on after ground contact
SimulateStepIgnoringAltitude ==
    /\ pc \in {"loop", "break"}
    /\ t < args.duration
    /\ IntegrateAndStore(compute_control(ctrl, CurrentCall.state,
                                         CurrentCall.distance, CurrentCall.dt))
    /\ op' = "simulate_step"
    /\ UNCHANGED <<aircraft, ncalls, args, x_touchdown, nruns, prev>>

\* One iteration of the while loop, lines 114-158
SimulateStep ==
    /\ pc = "loop"
    /\ t < args.duration /\ state[6] > 0
    /\ IntegrateAndStore(compute_control(ctrl, CurrentCall.state,
                                         CurrentCall.distance, CurrentCall.dt))
    /\ op' = "simulate_step"
    /\ UNCHANGED <<aircraft, ncalls, args, x_touchdown, nruns, prev>>

\* The loop is left (its condition is false, or break) and line 160 returns
SimulateReturn ==
    /\ \/ pc = "break"
       \/ pc = "loop" /\ ~(t < args.duration /\ state[6] > 0)
    /\ pc' = "returned"
    /\ Returns(NoControl, NoCall, NoLQR, NoPerf, NoHistories)
    /\ op' = "simulate_return"
    /\ UNCHANGED <<aircraft, ctrl, ncalls, args, state, t, x_touchdown,
                   time_history, state_history, control_history, nruns, prev>>

\* simulator.evaluate_landing_performance(times, states, controls), on the
\* result of the run just made or, before any run, on a trajectory built by
\* hand
Evaluate ==
    /\ pc \in {"idle", "returned"}
    /\ ncalls < MaxCalls
    /\ \E hist \in (IF pc = "returned" THEN {Result} ELSE CraftedHistories) :
          Returns(NoControl, NoCall, "none",
                  evaluate_landing_performance(hist), hist)
    /\ ncalls' = ncalls + 1
    /\ op' = "evaluate_landing_performance"
    /\ UNCHANGED <<aircraft, ctrl, simVars>>

BetweenRunsControl == ComputeControlFrom(BetweenRunInputs)

NextSim ==
    \/ SimulateBegin \/ SimulateStep \/ SimulateReturn
    \/ Evaluate \/ BetweenRunsControl \/ Reset \/ SetGain \/ DesignLQR

SpecSim == Init /\ [][NextSim]_vars

---------------------------------------------------------------------------
(* Claims about simulate_landing *)

Steps == Len(control_history)
CeilDiv(a, b) == (a + b - 1) \div b
LastOf(q) == q[Len(q)]

\* The run ended by ground contact: an executed step left altitude <= 0
\* (the local state then holds altitude 0)
GroundContact == pc = "returned" /\ Steps >= 1 /\ state[6] <= 0

\* C3: the loop runs a step only while no step has left altitude <= 0 and
\* the elapsed time is below duration, so it executes at most
\* ceil(duration/dt) steps.
C3_AtMostCeilDurationOverDtSteps ==
    pc \in {"loop", "break", "returned"} =>
        Steps <= CeilDiv(args.duration, args.dt)

\* C4: when a run ends by ground contact, the last state of the returned
\* state history has altitude exactly 0.
C4_LastRecordedAltitudeIsZero ==
    GroundContact => LastOf(state_history)[6] = 0

\* C5: every state recorded after an integration step has u in [18, 45] m/s,
\* q in [-0.5, 0.5] rad/s and theta in [-0.5, 0.5] rad.
C5_RecordedStatesWithinGuards ==
    \A i \in 2..Len(state_history) :
        /\ 18000 <= state_history[i][1] /\ state_history[i][1] <= 45000
        /\ -500 <= state_history[i][3] /\ state_history[i][3] <= 500
        /\ -500 <= state_history[i][4] /\ state_history[i][4] <= 500

\* C5 witness: a run started outside the bands whose first step the guards
\* cut back to the upper limits, and a run that reaches the lower speed limit.
C5_Witness ==
    /\ pc = "returned"
    /\ \/ /\ state_history[1][1] > 45000 /\ state_history[1][4] > 500
          /\ state_history[2][1] = 45000
          /\ state_history[2][3] = 500
          /\ state_history[2][4] = 500
       \/ /\ Steps >= 6 /\ LastOf(state_history)[1] = 18000

\* Two calls of simulate_landing were given the same scenario
SameScenario(a, b) ==
    /\ a.gains = b.gains
    /\ a.initial_state = b.initial_state
    /\ a.duration = b.duration
    /\ a.dt = b.dt

\* C6: a run made with the same controller instance, initial conditions,
\* duration and dt as the run before it returns the same time, state and
\* control histories, whatever the controller held when the run began.
C6_SameScenarioSameHistories ==
    (op = "simulate_return" /\ prev.valid /\ SameScenario(prev.args, args))
        => Result = prev.result

\* C6 witness: such a second run, of several steps, entered with a
\* controller that earlier use had left dirty.
C6_Witness ==
    /\ op = "simulate_return" /\ prev.valid /\ SameScenario(prev.args, args)
    /\ args.used
    /\ Steps >= 3
    /\ Result = prev.result

\* The five accumulators and the phase
Accumulators(c) ==
    <<c.int_theta, c.int_alt, c.int_vel, c.prev_error_theta,
      c.prev_error_alt>>
Pristine(c) == Accumulators(c) = <<0, 0, 0, 0, 0>> /\ c.phase = "approach"

\* C7 as stated: only the caller's explicit reset returns the controller
\* state to its initial values; in particular simulate_landing does not.
C7_OnlyExplicitResetRestores ==
    [][(~Pristine(ctrl) /\ Pristine(ctrl')) => op' = "reset"]_vars

\* C7 as amended: the controller state is returned to its initial values by
\* reset, which the caller invokes explicitly and which simulate_landing
\* invokes itself when a run begins; reset zeroes the five accumulators,
\* sets phase to approach and leaves the gains and flare_altitude alone;
\* design_lqr_controller, evaluate_landing_performance and the return of
\* simulate_landing leave the controller untouched; compute_control never
\* returns a wound-up pitch or altitude integrator (with its previous
\* error) to zero, and never changes the gains.
C7_ResetByResetOrRunStart ==
    [][ /\ op' \in {"reset", "simulate_begin"} =>
              Pristine(ctrl') /\ Gains(ctrl') = Gains(ctrl)
        /\ op' \in {"design_lqr_controller", "evaluate_landing_performance",
                    "simulate_return"} => ctrl' = ctrl
        /\ op' \in {"compute_control", "simulate_step"} =>
              /\ Gains(ctrl') = Gains(ctrl)
              /\ ctrl.int_theta # 0 =>
                    ~(ctrl'.int_theta = 0 /\ ctrl'.prev_error_theta = 0)
              /\ ctrl.int_alt # 0 =>
                    ~(ctrl'.int_alt = 0 /\ ctrl'.prev_error_alt = 0)
      ]_vars

\* C7 witness: a run has just begun with a controller that came in used and
\* with a gain the caller had changed; it is pristine and keeps that gain.
C7_Witness ==
    /\ op = "simulate_begin"
    /\ args.used
    /\ Pristine(ctrl)
    /\ ctrl.Kp_theta = 2000

---------------------------------------------------------------------------
(* Claims about evaluate_landing_performance *)

\* s is sqrt(u^2 + w^2) to the precision of the speed grid
IsSpeedOf(s, u, w) ==
    IF w = 0 THEN s = Abs(u)
    ELSE IF u = 0 THEN s = Abs(w)
    ELSE LET k == s \div 10
             n == (Abs(u) \div 10) * (Abs(u) \div 10)
                  + (Abs(w) \div 10) * (Abs(w) \div 10)
         IN  s = 10 * k /\ k * k <= n /\ n < (k + 1) * (k + 1)

\* C8: the report takes the last state of the history as touchdown; speed
\* is sqrt(u^2 + w^2), the vertical rate is -w, and landing_success holds
\* exactly when |rate| < 3.0 and 18 < speed < 35; a trajectory ending at
\* h=0, u=25, w=0, theta=0 gives speed 25, rate 0 and success.
C8_SuccessCriterion ==
    op = "evaluate_landing_performance" =>
        LET final == LastOf(evalArg.states)
            speed == perf.touchdown_speed_ms
            rate == perf.touchdown_vertical_rate_ms
        IN  /\ IsSpeedOf(speed, final[1], final[2])
            /\ rate = -final[2]
            /\ perf.landing_success <=>
                  (Abs(rate) < 3000 /\ 18000 < speed /\ speed < 35000)
            /\ (final[1] = 25000 /\ final[2] = 0 /\ final[4] = 0
                /\ final[6] = 0) =>
                  (speed = 25000 /\ rate = 0 /\ perf.landing_success)

\* C8 witness: the h=0, u=25, w=0, theta=0 trajectory has been evaluated
\* and reported a successful landing.
C8_Witness ==
    /\ op = "evaluate_landing_performance"
    /\ LastOf(evalArg.states) = <<25000, 0, 0, 0, 3000000, 0>>
    /\ perf.touchdown_speed_ms = 25000
    /\ perf.landing_success

\* The tracking error of the i-th recorded state against the 3 degree
\* slope to x = 3000 m
C9_Error(hist, i) ==
    Abs(hist.states[i][6]
        - Mul(3000000 - hist.states[i][5], Tan(Deg2Rad(3))))
RECURSIVE C9_Sum(_, _)
C9_Sum(hist, idx) ==
    IF idx = {} THEN 0
    ELSE LET i == CHOOSE j \in idx : TRUE
         IN  C9_Error(hist, i) + C9_Sum(hist, idx \ {i})
C9_Report(hist, idx) ==
    /\ idx = {} =>
          perf.mean_glide_slope_error_m = 0 /\ perf.max_glide_slope_error_m = 0
    /\ idx # {} =>
          /\ perf.mean_glide_slope_error_m
                = RDiv(C9_Sum(hist, idx), Cardinality(idx))
          /\ \A i \in idx : C9_Error(hist, i) <= perf.max_glide_slope_error_m
          /\ \E i \in idx : C9_Error(hist, i) = perf.max_glide_slope_error_m

\* C9 as stated: one sample for every step whose recorded phase was
\* glide_slope, |h - (3000 - x) tan 3deg| of the state paired with it; mean
\* and max are of exactly those samples, 0 when there are none.
C9_SampleForEveryGlideSlopeStep ==
    op = "evaluate_landing_performance" =>
        C9_Report(evalArg,
                  { i \in 1..Len(evalArg.controls) :
                      evalArg.controls[i].phase = "glide_slope" })

\* C9 as amended: one sample for every step whose recorded phase was
\* glide_slope and whose paired state lies before the fixed threshold
\* (x < 3000 m); mean and max are of exactly those samples, 0 when there
\* are none.
C9_SampleForGlideSlopeStepsBeforeThreshold ==
    op = "evaluate_landing_performance" =>
        C9_Report(evalArg,
                  { i \in 1..Len(evalArg.controls) :
                      /\ evalArg.controls[i].phase = "glide_slope"
                      /\ evalArg.states[i][5] < 3000000 })

\* C9 witness: a simulated run with several glide_slope steps before the
\* threshold has been evaluated, with a mean error below the maximum.
C9_Witness ==
    /\ op = "evaluate_landing_performance"
    /\ Len(evalArg.controls) >= 3
    /\ \A i \in 1..Len(evalArg.controls) :
          /\ evalArg.controls[i].phase = "glide_slope"
          /\ evalArg.states[i][5] < 3000000
    /\ 0 < perf.mean_glide_slope_error_m
    /\ perf.mean_glide_slope_error_m < perf.max_glide_slope_error_m

---------------------------------------------------------------------------
(* StabilityAnalyzer: mode identification and handling qualities *)

\* An eigenvalue of the state matrix, real and imaginary part in 1/1000 1/s
Eig(re, im) == [re |-> re, im |-> im]
Conj(e) == Eig(e.re, -e.im)

\* A quantity that may be np.inf
Finite(v) == [inf |-> FALSE, val |-> v]
Infinite == [inf |-> TRUE, val |-> 0]

\* Oscillatory pairs (the member with im > 0) and real eigenvalues that
\* linalg.eig may return for the state matrix
FastPairs ==
    { Eig(-3000, 4000), Eig(-350, 940), Eig(-349, 950), Eig(-250, 970),
      Eig(-249, 980), Eig(-150, 990), Eig(-149, 1000), Eig(-1000, 10),
      Eig(0, 1000), Eig(200, 980) }
SlowPairs ==
    { Eig(-20, 300), Eig(-8, 200), Eig(-7, 200), Eig(-1, 200),
      Eig(0, 200), Eig(5, 200), Eig(13, 200), Eig(-350, 940) }
RealEigs == { Eig(-2000, 0), Eig(-350, 0), Eig(0, 0), Eig(100, 0) }

\* The spectrum of a real 4x4 matrix: eigenvalues real or in conjugate pairs
Spectra ==
    { <<p, Conj(p), r, Conj(r)>> :
         p \in FastPairs,
         r \in { Eig(-20, 300), Eig(-8, 200), Eig(0, 200), Eig(5, 200) } }
    \cup { <<Eig(-3000, 4000), Eig(-3000, -4000), r, Conj(r)>> :
              r \in SlowPairs }
    \cup { <<p, Conj(p), a, b>> :
              p \in { Eig(-350, 940), Eig(0, 200) },
              a \in RealEigs, b \in { Eig(-350, 0), Eig(0, 0) } }
    \cup { <<a, Eig(-2000, 0), Eig(0, 0), Eig(100, 0)>> : a \in RealEigs }

\* linalg.eig's order followed by argsort on the real part, reversed: any
\* arrangement of the spectrum with non-increasing real part
SortedByRealPart(sp) ==
    { [i \in 1..4 |-> sp[perm[i]]] :
        perm \in { f \in [1..4 -> 1..4] :
                     /\ \A i, j \in 1..4 : i # j => f[i] # f[j]
                     /\ \A i \in 1..3 : sp[f[i]].re >= sp[f[i + 1]].re } }

\* eigenvalues as line 32 leaves them, for every spectrum
SortedSpectra == UNION { SortedByRealPart(sp) : sp \in Spectra }

ModeKey(i) == <<"mode_1", "mode_2", "mode_3", "mode_4">>[i]

Stability(eig) == IF eig.re < 0 THEN "stable" ELSE "unstable"

\* the entry of a real eigenvalue (its damping_ratio, natural_frequency and
\* period are None: the fields are absent)
RealMode(eig) ==
    [eigenvalue |-> eig, type |-> "real", stability |-> Stability(eig),
     time_constant |-> IF eig.re # 0 THEN Finite(Div(-U, eig.re))
                       ELSE Infinite]

\* the entry of an oscillatory eigenvalue
ComplexMode(eig) ==
    LET omega_n == Hypot(eig.re, eig.im)
        zeta == Div(-eig.re, omega_n)
        omega_d == eig.im
    IN  [eigenvalue |-> eig, type |-> "complex",
         stability |-> Stability(eig),
         damping_ratio |-> zeta,
         natural_frequency |-> omega_n,
         damped_frequency |-> Abs(omega_d),
         period |-> IF omega_d # 0 THEN Finite(Div(6283, Abs(omega_d)))
                    ELSE Infinite]

\* the indices the loop enters a mode for: every real eigenvalue, and every
\* complex one that does not follow its own conjugate
Entered(eigenvalues) ==
    { i \in 1..Len(eigenvalues) :
        \/ eigenvalues[i].im = 0
        \/ ~(i > 1 /\ eigenvalues[i - 1] = Conj(eigenvalues[i])) }

\* first a variant with the bands tested from the outermost inwards
ShortPeriodLevelOuterFirst(zeta_sp) ==
    IF zeta_sp < 150 THEN 4
    ELSE IF 250 <= zeta_sp /\ zeta_sp <= 2000 THEN 2
    ELSE IF 350 <= zeta_sp /\ zeta_sp <= 1300 THEN 1
    ELSE 3
\* (and a variant with the levels of the two outer bands exchanged)
ShortPeriodLevelOuterBandsExchanged(zeta_sp) ==
    IF 350 <= zeta_sp /\ zeta_sp <= 1300 THEN 1
    ELSE IF 250 <= zeta_sp /\ zeta_sp <= 2000 THEN 3
    ELSE IF zeta_sp >= 150 THEN 2
    ELSE 4
ShortPeriodLevel(zeta_sp) ==
    IF 350 <= zeta_sp /\ zeta_sp <= 1300 THEN 1
    ELSE IF 250 <= zeta_sp /\ zeta_sp <= 2000 THEN 2
    ELSE IF zeta_sp >= 150 THEN 3
    ELSE 4

\* (first a variant that takes the undamped mode's time to double as 0)
PhugoidLevelUndampedFails(ph) ==
    IF ph.damping_ratio >= 40 THEN 1
    ELSE IF ph.damping_ratio > 0 THEN 2
    ELSE LET time_double == IF ph.eigenvalue.re = 0 THEN Finite(0)
                            ELSE Finite(Div(693, Abs(ph.eigenvalue.re)))
         IN  IF time_double.inf \/ time_double.val > 55000 THEN 3 ELSE 4
PhugoidLevel(ph) ==
    IF ph.damping_ratio >= 40 THEN 1
    ELSE IF ph.damping_ratio > 0 THEN 2
    ELSE LET time_double == IF ph.eigenvalue.re = 0 THEN Infinite
                            ELSE Finite(Div(693, Abs(ph.eigenvalue.re)))
         IN  IF time_double.inf \/ time_double.val > 55000 THEN 3 ELSE 4

\* modes of analyze_longitudinal_stability for the sorted eigenvalues
analyze_longitudinal_stability(eigenvalues) ==
    LET entered == Entered(eigenvalues)
        entry(i) == IF eigenvalues[i].im = 0 THEN RealMode(eigenvalues[i])
                    ELSE ComplexMode(eigenvalues[i])
        complex == { i \in entered : eigenvalues[i].im # 0 }
        \* sorted(..., reverse=True) is stable: the earlier entry comes
        \* first among equal natural frequencies
        before(i, j) ==
            \/ entry(i).natural_frequency > entry(j).natural_frequency
            \/ /\ entry(i).natural_frequency = entry(j).natural_frequency
               /\ i < j
        first == CHOOSE i \in complex : \A j \in complex \ {i} : before(i, j)
        second == CHOOSE i \in complex \ {first} :
                      \A j \in complex \ {first, i} : before(i, j)
        aliases == IF Cardinality(complex) >= 2
                   THEN {"short_period", "phugoid"} ELSE {}
    IN  [k \in { ModeKey(i) : i \in entered } \cup aliases |->
            IF k = "short_period" THEN entry(first)
            ELSE IF k = "phugoid" THEN entry(second)
            ELSE entry(CHOOSE i \in entered : ModeKey(i) = k)]

\* hq_assessment of evaluate_handling_qualities for the modes (first a
\* variant that assesses the short period alone)
EvaluateShortPeriodOnly(m) ==
    [k \in DOMAIN m \cap {"short_period"} |->
        [damping_ratio |-> m[k].damping_ratio,
         natural_frequency |-> m[k].natural_frequency,
         level |-> ShortPeriodLevel(m[k].damping_ratio),
         acceptable |-> ShortPeriodLevel(m[k].damping_ratio) <= 3]]
evaluate_handling_qualities(m) ==
    [k \in DOMAIN m \cap {"short_period", "phugoid"} |->
        IF k = "short_period"
        THEN LET sp_level == ShortPeriodLevel(m[k].damping_ratio)
             IN  [damping_ratio |-> m[k].damping_ratio,
                  natural_frequency |-> m[k].natural_frequency,
                  level |-> sp_level,
                  acceptable |-> sp_level <= 3]
        ELSE LET ph_level == PhugoidLevel(m[k])
             IN  [damping_ratio |-> m[k].damping_ratio,
                  period |-> m[k].period,
                  level |-> ph_level,
                  acceptable |-> ph_level <= 3]]

\* analyzer.analyze_longitudinal_stability(trim)
AnalyzeStability ==
    /\ Preflight
    /\ \E eigenvalues \in SortedSpectra :
          /\ spectrum' = eigenvalues
          /\ modes' = analyze_longitudinal_stability(eigenvalues)
    /\ hq' = << >>
    /\ NoTrimming
    /\ op' = "analyze_longitudinal_stability"
    /\ UNCHANGED <<aircraft, ctrl, ncalls, retVars, simVars>>

\* analyzer.evaluate_handling_qualities(trim), which analyzes the modes itself
EvaluateHandlingQualities ==
    /\ Preflight
    /\ \E eigenvalues \in SortedSpectra :
          /\ spectrum' = eigenvalues
          /\ modes' = analyze_longitudinal_stability(eigenvalues)
          /\ hq' = evaluate_handling_qualities(
                       analyze_longitudinal_stability(eigenvalues))
    /\ NoTrimming
    /\ op' = "evaluate_handling_qualities"
    /\ UNCHANGED <<aircraft, ctrl, ncalls, retVars, simVars>>

NextHQ == AnalyzeStability \/ EvaluateHandlingQualities

SpecHQ == Init /\ [][NextHQ]_vars

---------------------------------------------------------------------------
(* aircraft_model.py: the caller of the trim solver and the linearization *)

\* Requested airspeeds (18 to 60 m/s, no airspeed, and flying backwards),
\* altitudes, and the wing areas a caller may write into the coefficient set
TrimVelocities ==
    {-30 * U, -18 * U, 0} \cup
    {v * U : v \in {18, 20, 22, 25, 28, 30, 33, 35, 40, 45, 50, 60}}
TrimAltitudes == {0, 300 * U}
WingAreas == {-16200, 0, 10000, 16200}

\* aircraft.get_trim_condition(velocity, altitude)
GetTrimCondition ==
    /\ Preflight
    /\ \E velocity \in TrimVelocities, altitude \in TrimAltitudes :
          /\ trimArg' = [given |-> TRUE, velocity |-> velocity,
                         altitude |-> altitude]
          /\ trim' = get_trim_condition(aircraft, velocity, altitude)
    /\ matrices' = NoMatrices
    /\ NoAnalysis
    /\ op' = "get_trim_condition"
    /\ UNCHANGED <<aircraft, ctrl, ncalls, retVars, simVars>>

\* aircraft.get_longitudinal_matrices(trim), on the trim last returned
Linearized(r) ==
    /\ aircraft' = r.self
    /\ trim' = r.trim_condition
    /\ matrices' = [outcome |-> r.outcome, A |-> r.A, B |-> r.B]
GetLongitudinalMatrices ==
    /\ Preflight
    /\ trim.outcome = "trim"
    /\ Linearized(get_longitudinal_matrices(aircraft, trim))
    /\ NoAnalysis
    /\ op' = "get_longitudinal_matrices"
    /\ UNCHANGED <<ctrl, ncalls, retVars, simVars, trimArg>>

\* aircraft.wing_area = S
SetWingArea ==
    /\ Preflight
    /\ \E S \in WingAreas : aircraft' = [aircraft EXCEPT !.wing_area = S]
    /\ op' = "set_wing_area"
    /\ UNCHANGED <<ctrl, ncalls, retVars, simVars, hqVars, trimVars>>

NextTrim == GetTrimCondition \/ GetLongitudinalMatrices \/ SetWingArea

SpecTrim == Init /\ [][NextTrim]_vars

\* Every operation of the core on the shipped coefficient set
NextCore ==
    \/ GetTrimCondition \/ GetLongitudinalMatrices
    \/ AnalyzeStability \/ EvaluateHandlingQualities
    \/ NextSim

SpecCore == Init /\ [][NextCore]_vars

---------------------------------------------------------------------------
(* Claims about the handling qualities *)

\* The level the short-period bands prescribe for a damping ratio
C10_Prescribed(zeta) ==
    IF 350 <= zeta /\ zeta <= 1300 THEN 1
    ELSE IF 250 <= zeta /\ zeta <= 2000 THEN 2
    ELSE IF zeta >= 150 THEN 3
    ELSE 4

C11_Prescribed(zeta, re) ==
    IF zeta >= 40 THEN 1
    ELSE IF zeta > 0 THEN 2
    ELSE IF re = 0 \/ 693 > 55 * Abs(re) THEN 3
    ELSE 4

C12_Zetas ==
    { -200, 0, 149, 150, 249, 250, 349, 350, 700, 1000, 1300, 1301, 1700,
      2000, 2001, 2500 }

\* C12: the level never gets lower as the damping ratio moves away from the
\* level-1 band: for the short period, going down from 0.35 or up from 1.30;
\* for the phugoid at fixed natural frequency, going down from 0.04.  Stated
\* of every two successive assessments, and of the short-period bands for
\* the ratios of C12_Zetas.
C12_LevelMonotoneAwayFromBand ==
    [][ /\ (/\ op = "evaluate_handling_qualities"
            /\ op' = "evaluate_handling_qualities"
            /\ "short_period" \in DOMAIN hq
            /\ "short_period" \in DOMAIN hq')
           => LET z == hq["short_period"].damping_ratio
                  z1 == hq'["short_period"].damping_ratio
                  worse == hq'["short_period"].level >= hq["short_period"].level
              IN  /\ (z1 <= z /\ z <= 350) => worse
                  /\ (z1 >= z /\ z >= 1300) => worse
        /\ (/\ op = "evaluate_handling_qualities"
            /\ op' = "evaluate_handling_qualities"
            /\ "phugoid" \in DOMAIN hq
            /\ "phugoid" \in DOMAIN hq'
            /\ modes'["phugoid"].natural_frequency
                  = modes["phugoid"].natural_frequency)
           => ((/\ hq'["phugoid"].damping_ratio <= hq["phugoid"].damping_ratio
                /\ hq["phugoid"].damping_ratio <= 40)
                  => hq'["phugoid"].level >= hq["phugoid"].level)
        /\ \A a, b \in C12_Zetas :
              /\ (b <= a /\ a <= 350)
                    => ShortPeriodLevel(b) >= ShortPeriodLevel(a)
              /\ (b >= a /\ a >= 1300)
                    => ShortPeriodLevel(b) >= ShortPeriodLevel(a)
      ]_vars

\* C12 witness: an assessment far from both level-1 bands: the short period
\* below 0.25 at level 3 and a slowly diverging phugoid at level 3, at the
\* natural frequency other phugoids of the spectra share.
C12_Witness ==
    /\ op = "evaluate_handling_qualities"
    /\ "short_period" \in DOMAIN hq /\ "phugoid" \in DOMAIN hq
    /\ hq["short_period"].damping_ratio = 249
    /\ hq["short_period"].level = 3
    /\ hq["phugoid"].damping_ratio < 0
    /\ modes["phugoid"].natural_frequency = 200
    /\ hq["phugoid"].level = 3

\* The numbered entries of the mode set that are complex modes
ComplexEntries ==
    { k \in { ModeKey(i) : i \in 1..4 } \cap DOMAIN modes :
        modes[k].type = "complex" }

\* C13: for any spectrum of real eigenvalues and conjugate pairs, and for
\* every order the sort may leave eigenvalues of equal real part in, each
\* conjugate pair is reported as exactly one complex mode entry: as many
\* entries as pairs, and no two entries of the same pair.
C13_EachPairReportedOnce ==
    op \in {"analyze_longitudinal_stability", "evaluate_handling_qualities"}
        => /\ 2 * Cardinality(ComplexEntries)
                 = Cardinality({ i \in 1..4 : spectrum[i].im # 0 })
           /\ \A k1, k2 \in ComplexEntries :
                 k1 # k2 =>
                     /\ modes[k1].eigenvalue # modes[k2].eigenvalue
                     /\ modes[k1].eigenvalue # Conj(modes[k2].eigenvalue)

\* The aliases are present exactly when there are two complex entries, and
\* then name the entry of highest natural frequency and the next highest
AliasesByFrequency ==
    /\ ("short_period" \in DOMAIN modes) <=> Cardinality(ComplexEntries) >= 2
    /\ ("phugoid" \in DOMAIN modes) <=> Cardinality(ComplexEntries) >= 2
    /\ "short_period" \in DOMAIN modes =>
          \E k1 \in ComplexEntries : \E k2 \in ComplexEntries \ {k1} :
              /\ modes["short_period"] = modes[k1]
              /\ modes["phugoid"] = modes[k2]
              /\ \A k \in ComplexEntries :
                    modes[k].natural_frequency <= modes[k1].natural_frequency
              /\ \A k \in ComplexEntries \ {k1} :
                    modes[k].natural_frequency <= modes[k2].natural_frequency
              /\ modes["short_period"].natural_frequency
                    >= modes["phugoid"].natural_frequency

\* C14: the aliases short_period and phugoid are added exactly when at least
\* two complex mode entries exist; short_period is the complex mode of
\* highest natural frequency, phugoid the next highest, and the two aliases
\* denote two different conjugate pairs.
C14_AliasesNameTwoDifferentPairs ==
    op \in {"analyze_longitudinal_stability", "evaluate_handling_qualities"}
        => /\ AliasesByFrequency
           /\ "short_period" \in DOMAIN modes =>
                 /\ modes["short_period"].eigenvalue
                       # modes["phugoid"].eigenvalue
                 /\ modes["short_period"].eigenvalue
                       # Conj(modes["phugoid"].eigenvalue)

\* C15: with fewer than two complex modes (no aliases) the assessment
\* completes and holds no short_period and no phugoid entry; an entry is
\* present exactly when its alias is present in the mode set.
C15_EntryExactlyWhenAliasPresent ==
    op = "evaluate_handling_qualities"
        => /\ DOMAIN hq = DOMAIN modes \cap {"short_period", "phugoid"}
           /\ Cardinality(ComplexEntries) < 2 => DOMAIN hq = {}

\* C15 witness: a spectrum with a single oscillatory pair has been assessed:
\* one complex entry, no alias, an empty assessment.
C15_Witness ==
    /\ op = "evaluate_handling_qualities"
    /\ Cardinality(ComplexEntries) = 1
    /\ "short_period" \notin DOMAIN modes
    /\ "phugoid" \notin DOMAIN modes
    /\ DOMAIN hq = {}


---------------------------------------------------------------------------
(* Claims about the trim solver and the linearization *)

\* C16: get_trim_condition called with a non-positive velocity (zero or
\* negative) or with a non-positive wing area ends with an error and returns
\* no trim condition.
C16_NonPositiveInputRaises ==
    op = "get_trim_condition"
        /\ (trimArg.velocity <= 0 \/ aircraft.wing_area <= 0)
        => trim.outcome # "trim"

\* C19: for every velocity V > 0 at altitude 0, on a coefficient set with a
\* positive wing area, get_trim_condition returns a trim whose velocity is
\* V, whose pitch rate is 0, whose pitch angle is its angle of attack and
\* whose lift coefficient is mass*g / (0.5*rho*V^2*wing_area).
C19_TrimBalancesWeight ==
    op = "get_trim_condition" /\ trimArg.velocity > 0
        /\ trimArg.altitude = 0 /\ aircraft.wing_area > 0
        => /\ trim.outcome = "trim"
           /\ trim.velocity = trimArg.velocity
           /\ trim.q = 0
           /\ trim.theta = trim.alpha
           /\ trim.CL = DivLarge(Mul(aircraft.mass, aircraft.g),
                                 Mul(Mul(Mul(500, aircraft.rho),
                                         Mul(trimArg.velocity,
                                             trimArg.velocity)),
                                     aircraft.wing_area))

C19_Witness ==
    /\ op = "get_trim_condition"
    /\ trimArg.velocity = 45 * U /\ trimArg.altitude = 0
    /\ aircraft.wing_area = 16200
    /\ trim.outcome = "trim"
    /\ trim.velocity = 45 * U
    /\ trim.CL > 500 /\ trim.CL < 600
    /\ trim.theta = trim.alpha /\ trim.alpha > 0

---------------------------------------------------------------------------
(* Claims about the LQR design and the control query of the loop *)

\* C17: design_lqr_controller returns None when the LQR solve raises, and
\* whether it returns a gain or None it leaves the controller (phase,
\* accumulators, gains) as it was, so that a compute_control call made next
\* returns what it would have returned without the design.
C17_DesignLeavesControllerAlone ==
    [][/\ op' = "design_lqr_controller"
          => /\ ctrl' = ctrl
             /\ lqr'.solve = "raises" => lqr'.result = "None"
             /\ lqr'.solve = "returns" => lqr'.result = "K"
       /\ op = "design_lqr_controller" /\ op' = "compute_control"
          => /\ cmd' = compute_control(ctrl, call'.state, call'.distance,
                                       call'.dt).control
             /\ ctrl' = compute_control(ctrl, call'.state, call'.distance,
                                        call'.dt).c]_vars

C17_Witness ==
    /\ op = "design_lqr_controller"
    /\ lqr.solve = "raises" /\ lqr.result = "None"
    /\ ctrl.phase = "flare"
    /\ ctrl.int_theta # 0 /\ ctrl.int_vel # 0
    /\ ctrl.Kp_theta = LandingController.Kp_theta

\* What one iteration of the loop does with the command r.control of its
\* one query: the controller is the one that query left, the command is
\* stored, and the stored state is the bounded RK4 step under that command
C18_CommandHeld(r) ==
    /\ ctrl' = r.c
    /\ control_history' = Append(control_history, r.control)
    /\ LastOf(state_history')
          = ApplyBounds(RK4Step(aircraft, state, r.control,
                                Seconds(args.dt)))

\* C18: simulate_landing asks the controller once per integration step,
\* with the state before the step, and integrates all four Runge-Kutta
\* stages under that one command; outside the steps a run does not touch
\* the controller, so a run makes as many compute_control calls as steps.
C18_OneQueryPerStep ==
    [][/\ op' = "simulate_step"
          => C18_CommandHeld(compute_control(ctrl, CurrentCall.state,
                                             CurrentCall.distance,
                                             CurrentCall.dt))
       /\ pc' \in {"loop", "break"}
          => Len(control_history') = Len(time_history') - 1
       /\ pc \in {"loop", "break"} /\ op' # "simulate_step"
          => ctrl' = ctrl /\ control_history' = control_history]_vars

C18_Witness ==
    /\ op = "simulate_step"
    /\ Len(control_history) = 3 /\ Len(time_history) = 4
    /\ control_history[1] # control_history[2]
    /\ ctrl.int_theta # 0

---------------------------------------------------------------------------
(* Claim about the whole core *)

\* C20: no operation of the core changes the aircraft coefficient set, and
\* get_longitudinal_matrices leaves the trim condition it is given as it
\* was.
C20_CoefficientsAndTrimReadOnly ==
    [][/\ aircraft' = aircraft
       /\ op' = "get_longitudinal_matrices" => trim' = trim]_vars

C20_Witness ==
    /\ op = "get_longitudinal_matrices"
    /\ matrices.outcome = "matrices"
    /\ trim.outcome = "trim" /\ trim.velocity = 30 * U
    /\ trim.theta = trim.alpha /\ trim.alpha # 0
    /\ aircraft = AircraftModel

---------------------------------------------------------------------------
(* Claims about the reported touchdown and the returned histories *)

\* C21: for a trajectory produced by simulate_landing with at least one
\* integration step, the touchdown speed evaluate_landing_performance
\* reports lies within [18, 45] m/s.
C21_TouchdownSpeedWithinBounds ==
    op = "evaluate_landing_performance" /\ pc = "returned"
        /\ evalArg = Result /\ Steps >= 1
        => /\ perf.touchdown_speed_ms >= 18 * U
           /\ perf.touchdown_speed_ms <= 45 * U

---------------------------------------------------------------------------
(* Claims about the control laws *)

GainFields ==
    {"Kp_theta", "Ki_theta", "Kd_theta", "Kp_alt", "Ki_alt", "Kd_alt",
     "Kp_vel", "Ki_vel"}

\* A second controller that differs from c only in gain field g
Retuned(c, g) == [c EXCEPT ![g] = 2 * c[g]]

\* Some sequence of at most n compute_control calls, the same for both
\* controllers, on which c1 and c2 return different commands
RECURSIVE Distinguished(_, _, _)
Distinguished(c1, c2, n) ==
    /\ n > 0
    /\ \E in \in ControlInputs :
          \/ compute_control(c1, in.state, in.distance, in.dt).control
                # compute_control(c2, in.state, in.distance, in.dt).control
          \/ Distinguished(
                 compute_control(c1, in.state, in.distance, in.dt).c,
                 compute_control(c2, in.state, in.distance, in.dt).c, n - 1)

\* C22: every gain of the control laws is configuration of the instance:
\* for each gain field there is an input sequence on which two controllers
\* that differ only in that field return different commands.
C22_EveryGainChangesSomeCommand ==
    op = "init"
        => \A g \in GainFields :
               Distinguished(ctrl, Retuned(ctrl, g), MaxCalls)

\* C23: a compute_control call whose phase is touchdown returns throttle 0
\* and elevator clamp(2.0 * (2 deg - theta), -0.4, 0.4), a function of the
\* pitch angle alone.
C23_TouchdownLawIsProportional ==
    op = "compute_control" /\ cmd.phase = "touchdown"
        => /\ cmd.throttle = 0
           /\ cmd.elevator
                 = Clip(2 * (Deg2Rad(2) - call.state.theta), -400, 400)

C23_Witness ==
    /\ op = "compute_control" /\ cmd.phase = "touchdown"
    /\ ctrl.int_theta # 0 /\ ctrl.int_vel # 0 /\ ctrl.prev_error_theta # 0
    /\ call.state.theta = 20 /\ call.state.velocity = 32 * U
    /\ cmd.elevator = 30 /\ cmd.throttle = 0

\* C24: the altitude integral stays within [-50, 50] in every controller
\* state: after construction, after reset and after any sequence of
\* compute_control calls.
C24_AltitudeIntegralBounded ==
    ctrl.int_alt >= -50 * U /\ ctrl.int_alt <= 50 * U

C24_Witness ==
    /\ op = "compute_control" /\ cmd.phase = "glide_slope"
    /\ compute_glide_slope_reference(ctrl, call.distance)
          - call.state.altitude > 50 * U
    /\ call.dt = U
    /\ ctrl.int_alt = 50 * U

\* The velocity reference of each phase's throttle law
C25_RefVelocity(phase) ==
    CASE phase = "approach" -> 33 * U
      [] phase = "glide_slope" -> 30 * U
      [] phase = "flare" -> 27 * U

\* The pitch and velocity accumulators of c1 are those of c0 advanced by
\* one call in the given phase: the integrals grow by error * dt from their
\* prior values and the previous pitch error is the error of this call
C25_PitchAndVelocityAdvance(c0, c1, in, phase) ==
    /\ c1.int_theta = c0.int_theta + Mul(c1.prev_error_theta, in.dt)
    /\ phase = "approach" => c1.prev_error_theta = -in.state.theta
    /\ c1.int_vel = c0.int_vel
                      + Mul(C25_RefVelocity(phase) - in.state.velocity, in.dt)

\* The altitude accumulators of c1 are those of c0 advanced by one
\* glide_slope call
C25_AltitudeAdvance(c0, c1, in) ==
    /\ c1.prev_error_alt = compute_glide_slope_reference(c0, in.distance)
                             - in.state.altitude
    /\ c1.int_alt = Clip(c0.int_alt + Mul(c1.prev_error_alt, in.dt),
                         -50 * U, 50 * U)

\* C25: a compute_control call changes only the accumulators its phase's
\* law uses, and advances them from their prior values whatever the phase
\* of the call before: none in touchdown; pitch integral, previous pitch
\* error and velocity integral in approach and flare, with the altitude
\* integral and previous altitude error left alone; all five in glide_slope.
C25_OnlyTheLawsAccumulatorsChange ==
    [][op' = "compute_control"
          => /\ cmd'.phase = "touchdown"
                => Accumulators(ctrl') = Accumulators(ctrl)
             /\ cmd'.phase \in {"approach", "flare"}
                => /\ ctrl'.int_alt = ctrl.int_alt
                   /\ ctrl'.prev_error_alt = ctrl.prev_error_alt
                   /\ C25_PitchAndVelocityAdvance(ctrl, ctrl', call',
                                                  cmd'.phase)
             /\ cmd'.phase = "glide_slope"
                => /\ C25_AltitudeAdvance(ctrl, ctrl', call')
                   /\ C25_PitchAndVelocityAdvance(ctrl, ctrl', call',
                                                  cmd'.phase)]_vars

C25_Witness ==
    /\ op = "compute_control" /\ cmd.phase = "flare"
    /\ ncalls = 2
    /\ ctrl.int_alt # 0 /\ ctrl.prev_error_alt # 0
    /\ ctrl.int_theta # 0 /\ ctrl.int_vel # 0

\* C26: the phase is not sticky.  Every compute_control call selects its
\* phase from altitude and distance alone, whatever phase the controller
\* was in, so from any phase the next call can select any of the four
\* phases; the order approach, glide_slope, flare, touchdown is not
\* enforced.
C26_AnyPhaseFollowsAnyPhase ==
    [][op' = "compute_control"
          => /\ \A p \in Phases :
                   update_phase([ctrl EXCEPT !.phase = p],
                                call'.state.altitude, call'.distance)
                     = cmd'.phase
             /\ \A p \in Phases :
                   \E in \in ControlInputs :
                      compute_control(ctrl, in.state, in.distance,
                                      in.dt).control.phase = p]_vars

\* A flare call followed by an approach call: the velocity
\* integral (27 - 32) * 1 + (33 - 32) * 1 can only come from that sequence
C26_Witness ==
    /\ op = "compute_control" /\ ncalls = 2
    /\ cmd.phase = "approach"
    /\ call.state.altitude >= ctrl.flare_altitude
    /\ call.state.velocity = 32 * U /\ call.dt = U
    /\ ctrl.int_vel = -4 * U
    /\ ctrl.int_alt = 0

---------------------------------------------------------------------------
(* Claims about the reported touchdown rate and the returned histories *)

\* The altitude rate the dynamics give in state s (line 76)
AltitudeRate(s) == longitudinal_dynamics(aircraft, s, NoControl)[6]

\* C27: the reported touchdown vertical rate is the sign-flipped body-axis
\* vertical velocity of the final state, and it is positive when the
\* aircraft is descending at level pitch, that is when the altitude rate
\* of the dynamics is negative at theta = 0.
C27_RatePositiveWhenDescending ==
    op = "evaluate_landing_performance"
        => /\ perf.touchdown_vertical_rate_ms = -LastOf(evalArg.states)[2]
           /\ LastOf(evalArg.states)[4] = 0
                 /\ AltitudeRate(LastOf(evalArg.states)) < 0
              => perf.touchdown_vertical_rate_ms > 0

\* The initial_state dictionary as the 6-vector of lines 94-101
InitialVector(init) == <<init.u, init.w, init.q, init.theta, init.x, init.h>>

\* C28: a run of N executed steps returns time and state histories of
\* length N + 1 and a control history of length N, with times[k] = k * dt
\* and states[0] the caller's initial state; N = 0 when the initial
\* altitude is <= 0 or duration <= 0, and evaluate_landing_performance on
\* such a result completes and reports 0 for the mean and the maximum
\* glide-slope error.
C28_ReturnedHistories ==
    pc = "returned"
        => /\ Len(time_history) = Len(control_history) + 1
           /\ Len(state_history) = Len(control_history) + 1
           /\ \A k \in 0 .. Len(control_history) :
                 time_history[k + 1] = ClockRound(k * args.dt)
           /\ state_history[1] = InitialVector(args.initial_state)
           /\ args.initial_state.h <= 0 \/ args.duration <= 0
              => /\ control_history = << >>
                 /\ evaluate_landing_performance(Result)
                       .mean_glide_slope_error_m = 0
                 /\ evaluate_landing_performance(Result)
                       .max_glide_slope_error_m = 0

\* C29: when at least one step was executed, every state of the returned
\* state history except the last has altitude > 0: no integration step and
\* no controller call is made from a state with altitude <= 0.
C29_NoStepFromTheGround ==
    [][/\ op' = "simulate_step"
          => state[6] > 0 /\ call'.state.altitude > 0
       /\ pc' = "returned" /\ Len(control_history') >= 1
          => \A i \in 1 .. Len(state_history') - 1 :
                state_history'[i][6] > 0]_vars

C29_Witness ==
    /\ pc = "returned" /\ Steps >= 3
    /\ LastOf(state_history)[6] <= 0
    /\ state[6] = 0
    /\ state_history[Len(state_history) - 1][6] > 0

\* The phase function applied to the i-th state of the state history
C30_PhaseOfState(i) ==
    update_phase(ctrl, state_history[i][6],
                 x_touchdown - state_history[i][5])

\* C30: in the histories of a run, the phase recorded in controls[i] is the
\* phase function applied to the altitude of states[i] and the distance
\* x_touchdown - x of states[i], with x_touchdown 3000 when the initial
\* state has none: each command is paired with the state it was computed
\* from.
C30_ControlPairedWithPreStepState ==
    pc # "idle"
        => /\ x_touchdown = IF args.initial_state.has_x_touchdown
                            THEN args.initial_state.x_touchdown
                            ELSE 3000 * U
           /\ \A i \in 1 .. Len(control_history) :
                 control_history[i].phase = C30_PhaseOfState(i)

C30_Witness ==
    /\ pc = "returned" /\ Steps >= 2
    /\ ~args.initial_state.has_x_touchdown
    /\ \E i \in 1 .. Len(control_history) :
          /\ control_history[i].phase = C30_PhaseOfState(i)
          /\ control_history[i].phase # C30_PhaseOfState(i + 1)

=============================================================================
